---- MODULE Spec2Model ----
(***************************************************************************)
(* A model of split_json_to_md.py: the driver main(), the per-file         *)
(* pipeline split_json_file() and the sanitizer make_valid_filename().     *)
(*                                                                         *)
(* Text is a sequence of one-character strings, so that sanitizing,        *)
(* formatting and path splitting are computed and not assumed.  A parsed   *)
(* JSON value is a record of one fixed shape:                              *)
(*   t     the Python type: "str", "num", "bool", "null", "list", "dict"   *)
(*   s     the text of a str                                               *)
(*   n     the value of a num (a natural) or of a bool (0 or 1)            *)
(*   keys  the keys of a dict, in insertion order                          *)
(*   items the elements of a list, or the values of a dict (items[j] is    *)
(*         the value of keys[j])                                           *)
(*                                                                         *)
(* The diagnostic prints of lines 55, 56 and 63 are left out: nothing      *)
(* reads them.  The summary of line 110 is kept in stdout.                 *)
(***************************************************************************)
EXTENDS Integers, Sequences, FiniteSets, TLC

VARIABLES
    argv,        \* sys.argv[1:]: <<>> or <<path>>
    cwd,         \* os.path.basename(os.getcwd())
    cwd_json,    \* names of the *.json files of the working directory
    dirs,        \* names of the subdirectories of the working directory
    files,       \* the .md files on disk: records [dir, name, content]
    pc,          \* position of the program
    json_files,  \* the paths main() iterates over
    k,           \* index in json_files of the file being processed
    data,        \* split_json_file: data
    output_dir,  \* split_json_file: output_dir
    i,           \* split_json_file: number of records already emitted
    error,       \* the exception that ended the run, or NoError
    stdout,      \* the summary lines printed (line 110)
    loaded,      \* the size of the documents parsed so far (bounds the run)
    writes,      \* history: every md_file.write, in order
    made,        \* history: every directory os.makedirs created
    parsed,      \* history: what json.load returned for the current file
    san_in,      \* make_valid_filename called alone: its argument
    san_out      \* make_valid_filename called alone: what it returned

vars == <<argv, cwd, cwd_json, dirs, files, pc, json_files, k, data,
          output_dir, i, error, stdout, loaded, writes, made, parsed,
          san_in, san_out>>

----------------------------------------------------------------------------
(* Bounds *)

\* most list elements parsed in one run, over all its input files
MaxRecords == 3
\* most *.json files in the working directory
MaxFiles == 2
\* longest text handed to make_valid_filename in SpecFilename
MaxLen == 3

----------------------------------------------------------------------------
(* Text *)

Range(f) == {f[x] : x \in DOMAIN f}

Lower == {"a","b","c","d","e","f","g","h","i","j","k","l","m",
          "n","o","p","q","r","s","t","u","v","w","x","y","z"}
Upper == {"A","B","C","D","E","F","G","H","I","J","K","L","M",
          "N","O","P","Q","R","S","T","U","V","W","X","Y","Z"}
DigitChars == <<"0","1","2","3","4","5","6","7","8","9">>

\* the characters the pattern [^a-zA-Z0-9_] does not match
WordChars == Lower \cup Upper \cup Range(DigitChars) \cup {"_"}

\* str(n) for a natural n
RECURSIVE IntToStr(_)
IntToStr(n) ==
    IF n < 10 THEN <<DigitChars[n + 1]>>
    ELSE IntToStr(n \div 10) \o <<DigitChars[(n % 10) + 1]>>

\* name.replace(old, new) for one-character old and new
StrReplace(name, old, new) ==
    [j \in 1..Len(name) |-> IF name[j] = old THEN new ELSE name[j]]

\* re.sub(r'[^a-zA-Z0-9_]', '', s)
RECURSIVE ReSubNonWord(_)
ReSubNonWord(s) ==
    IF s = <<>> THEN <<>>
    ELSE IF Head(s) \in WordChars THEN <<Head(s)>> \o ReSubNonWord(Tail(s))
    ELSE ReSubNonWord(Tail(s))

\* the sanitizer without its replace: spaces are deleted, not turned
make_valid_filename_no_replace(name) == ReSubNonWord(name)

make_valid_filename(name) == ReSubNonWord(StrReplace(name, " ", "_"))

----------------------------------------------------------------------------
(* JSON values *)

Str(s)  == [t |-> "str",  s |-> s,    n |-> 0, keys |-> <<>>, items |-> <<>>]
Num(n)  == [t |-> "num",  s |-> <<>>, n |-> n, keys |-> <<>>, items |-> <<>>]
Bool(b) == [t |-> "bool", s |-> <<>>, n |-> IF b THEN 1 ELSE 0,
            keys |-> <<>>, items |-> <<>>]
Null    == [t |-> "null", s |-> <<>>, n |-> 0, keys |-> <<>>, items |-> <<>>]
List(xs) == [t |-> "list", s |-> <<>>, n |-> 0, keys |-> <<>>, items |-> xs]
Dict(ks, vs) == [t |-> "dict", s |-> <<>>, n |-> 0, keys |-> ks, items |-> vs]

\* isinstance(v, list), isinstance(v, dict), and whether v has .replace
IsList(v) == v.t = "list"
IsDict(v) == v.t = "dict"
IsStr(v)  == v.t = "str"

\* f"{v}" for a scalar v (a list or a mapping nested in a list or under a
\* mapping-valued field is rendered by repr; the inputs below hold none)
PyStr(v) ==
    CASE v.t = "str"  -> v.s
      [] v.t = "num"  -> IntToStr(v.n)
      [] v.t = "bool" -> IF v.n = 1 THEN <<"T","r","u","e">>
                                    ELSE <<"F","a","l","s","e">>
      [] v.t = "null" -> <<"N","o","n","e">>

\* key in entry, entry[key], entry.get(key, default)
HasKey(entry, key) == \E j \in 1..Len(entry.keys) : entry.keys[j] = key
Lookup(entry, key) ==
    entry.items[CHOOSE j \in 1..Len(entry.keys) : entry.keys[j] = key]
DictGet(entry, key, default) ==
    IF HasKey(entry, key) THEN Lookup(entry, key) ELSE default

----------------------------------------------------------------------------
(* Paths *)

Path(d, b) == [dir |-> d, base |-> b]
NoPath == Path(<<>>, <<>>)

\* os.path.basename(path)
Basename(path) == path.base

\* os.path.splitext(p)[0]: p up to its last dot, unless only dots precede it
SplitextRoot(p) ==
    LET dots == {j \in 1..Len(p) : p[j] = "."}
    IN  IF dots = {} THEN p
        ELSE LET d == CHOOSE x \in dots : \A y \in dots : y <= x
             IN  IF \E j \in 1..(d - 1) : p[j] # "." THEN SubSeq(p, 1, d - 1)
                 ELSE p

\* line 79
JsonFileName(path) == SplitextRoot(Basename(path))

Dot == <<".">>
MdExt == <<".","m","d">>
JsonExt == <<".","j","s","o","n">>
TitleKey == <<"t","i","t","l","e">>
EntryPrefix == <<"e","n","t","r","y","_">>

----------------------------------------------------------------------------
(* The per-record computations of split_json_file, lines 89-108 *)

\* the loop walking the list from its end
EntryFromEnd(d, idx) == d.items[Len(d.items) - idx]

\* line 89: the entry enumerate pairs with index idx
Entry(d, idx) == d.items[idx + 1]

\* the default title numbered from 0
TitleFromZero(entry, idx) == DictGet(entry, TitleKey, Str(EntryPrefix \o IntToStr(idx)))

\* line 91: entry.get('title', f"entry_{i+1}"), idx the enumerate index
Title(entry, idx) == DictGet(entry, TitleKey, Str(EntryPrefix \o IntToStr(idx + 1)))

\* line 92, for a title that has .replace
FileName(title) == make_valid_filename(title.s) \o MdExt

\* lines 100-101: the lines of a list value, from element j on
RECURSIVE ItemLines(_, _)
ItemLines(value, j) ==
    IF j > Len(value.items) THEN <<>>
    ELSE <<" "," ","-"," ","\"">> \o PyStr(value.items[j]) \o <<"\"","\n">>
         \o ItemLines(value, j + 1)

\* a field written without the quotes around a scalar
FieldTextUnquoted(key, value) ==
    IF IsList(value) THEN key \o <<":","\n">> \o ItemLines(value, 1)
    ELSE key \o <<":"," ">> \o PyStr(value) \o <<"\n">>

\* lines 98-103: what one field adds to content
FieldText(key, value) ==
    IF IsList(value) THEN key \o <<":","\n">> \o ItemLines(value, 1)
    ELSE key \o <<":"," ","\"">> \o PyStr(value) \o <<"\"","\n">>

\* lines 97-103: the fields from position j on
RECURSIVE FieldsText(_, _)
FieldsText(entry, j) ==
    IF j > Len(entry.keys) THEN <<>>
    ELSE FieldText(entry.keys[j], entry.items[j]) \o FieldsText(entry, j + 1)

\* lines 96-104
Content(entry) ==
    <<"-","-","-","\n">> \o FieldsText(entry, 1) \o <<"-","-","-","\n">>

\* a write that leaves a file that is already there as it is
WriteFileKeepFirst(fs, d, name, content) ==
    IF \E f \in fs : f.dir = d /\ f.name = name THEN fs
    ELSE fs \cup {[dir |-> d, name |-> name, content |-> content]}

\* lines 107-108: open(file_path, 'w') truncates or creates, write fills
WriteFile(fs, d, name, content) ==
    {f \in fs : ~(f.dir = d /\ f.name = name)}
        \cup {[dir |-> d, name |-> name, content |-> content]}

\* line 84: os.makedirs(d, exist_ok=True)
MakeDirs(ds, d) == ds \cup {d}

----------------------------------------------------------------------------
(* Normalizer, lines 59-72 *)

\* line 66
Qualifies(v) == IsList(v) /\ \A j \in 1..Len(v.items) : IsDict(v.items[j])

\* the scan keeping the last key that qualifies
LastQualifying(d) ==
    LET q == {j \in 1..Len(d.keys) : Qualifies(d.items[j])}
    IN  IF q = {} THEN 0 ELSE CHOOSE x \in q : \A y \in q : y <= x

\* lines 65-68: the position of the key the for loop breaks at, 0 for none
FirstQualifying(d) ==
    LET q == {j \in 1..Len(d.keys) : Qualifies(d.items[j])}
    IN  IF q = {} THEN 0 ELSE CHOOSE x \in q : \A y \in q : x <= y

----------------------------------------------------------------------------
(* Errors *)

NoError == [type |-> "none", msg |-> "", file |-> NoPath]
\* lines 70, 72
NoArrayError(path) ==
    [type |-> "ValueError", msg |-> "does not contain an array of objects",
     file |-> path]
\* line 76
NotObjectError(path) ==
    [type |-> "ValueError", msg |-> "entry is not an object", file |-> path]
\* line 40 on a value without .replace
AttributeError ==
    [type |-> "AttributeError", msg |-> "no attribute replace", file |-> NoPath]
\* lines 51-52: open or json.load fails
LoadError(type, path) == [type |-> type, msg |-> "", file |-> path]

----------------------------------------------------------------------------
(* The inputs of the model *)

Seqs(S, n) == UNION {[1..m -> S] : m \in 0..n}

TagsKey == <<"t","a","g","s">>
TagsValue == List(<<Str(<<"x">>), Num(5)>>)

\* records: titled by text or by a number, untitled, with and without a list
Records ==
    {Dict(<<TitleKey>>, <<Str(<<"a"," ","b">>)>>),
     Dict(<<TitleKey>>, <<Num(5)>>),
     Dict(<<TagsKey>>, <<TagsValue>>),
     Dict(<<TagsKey, TitleKey>>, <<TagsValue, Str(<<"a","_","b">>)>>)}

Scalars == {Num(7), Null, Bool(TRUE)}

\* the elements of a top-level list: records and a value that is no mapping
Elements == Records \cup {Num(7)}
TopLists == {List(xs) : xs \in Seqs(Elements, MaxRecords)}

\* the values of a top-level mapping
DictElements ==
    {Dict(<<TitleKey>>, <<Str(<<"a","_","b">>)>>),
     Dict(<<TagsKey>>, <<TagsValue>>)}
DictValues ==
    {Num(7), List(<<Num(7)>>)}
        \cup {List(xs) : xs \in Seqs(DictElements, MaxRecords - 1)}
\* mappings of up to two keys, m before r in insertion order
DictDocs ==
    {Dict(<<>>, <<>>)}
        \cup {Dict(<<<<"m">>>>, <<v>>) : v \in DictValues}
        \cup {Dict(<<<<"m">>, <<"r">>>>, <<v, w>>) : v \in DictValues, w \in DictValues}

RECURSIVE SumLens(_, _)
SumLens(vs, j) ==
    IF j > Len(vs) THEN 0
    ELSE (IF IsList(vs[j]) THEN Len(vs[j].items) ELSE 0) + SumLens(vs, j + 1)

\* the number of list elements json.load builds for a document
DocSize(d) ==
    IF IsList(d) THEN Len(d.items)
    ELSE IF IsDict(d) THEN SumLens(d.items, 1) ELSE 0

\* what a document takes of the bound on the run: a file counts as one at least
LoadCost(d) == IF DocSize(d) = 0 THEN 1 ELSE DocSize(d)

Documents == {d \in TopLists \cup Scalars \cup DictDocs : DocSize(d) <= MaxRecords}

\* the j-th *.json name of the working directory: foo.json, b2.json, ...
JsonName(j) ==
    (IF j = 1 THEN <<"f","o","o">> ELSE <<"b">> \o IntToStr(j)) \o JsonExt
JsonNames(m) == {JsonName(j) : j \in 1..m}

CwdNames == {<<"f","o","o">>, <<"w","o","r","k">>}
ArgPaths == {Path(<<>>, JsonName(1)), Path(<<"i","n">>, <<"b","2">> \o JsonExt)}

Perms(S) ==
    {f \in [1..Cardinality(S) -> S] : \A a, b \in DOMAIN f : a # b => f[a] # f[b]}

----------------------------------------------------------------------------
(* The program *)

Init ==
    /\ argv \in {<<>>} \cup {<<p>> : p \in ArgPaths}
    /\ cwd \in CwdNames
    /\ cwd_json \in IF argv = <<>> THEN {JsonNames(m) : m \in 0..MaxFiles}
                    ELSE {JsonNames(MaxFiles)}
    /\ dirs \in SUBSET {<<"f","o","o">>}
    /\ files = {}
    /\ pc = "main"
    /\ json_files = <<>>
    /\ k = 0
    /\ data = Null
    /\ output_dir = <<>>
    /\ i = 0
    /\ error = NoError
    /\ stdout = <<>>
    /\ loaded = 0
    /\ writes = <<>>
    /\ made = {}
    /\ parsed = Null
    /\ san_in = <<>>
    /\ san_out = <<>>

\* a driver that catches the exception and goes on with the next file
RaiseAndGoOn(e) ==
    /\ error' = e
    /\ IF 0 < k /\ k < Len(json_files) THEN pc' = "load" /\ k' = k + 1
                                        ELSE pc' = "failed" /\ k' = k

\* An exception: no handler anywhere, so it ends main() and the run.
Raise(e) ==
    /\ error' = e
    /\ pc' = "failed"
    /\ UNCHANGED k

\* lines 119-121
MainArgv ==
    /\ pc = "main"
    /\ Len(argv) > 0
    /\ json_files' = <<argv[1]>>
    /\ k' = 1
    /\ pc' = "load"
    /\ UNCHANGED <<argv, cwd, cwd_json, dirs, files, data, output_dir, i,
                   error, stdout, loaded, writes, made, parsed, san_in, san_out>>

\* lines 122-126: glob returns the names in an order of its own
MainGlob ==
    /\ pc = "main"
    /\ Len(argv) = 0
    /\ \E order \in Perms(cwd_json) :
          json_files' = [j \in 1..Len(order) |-> Path(<<>>, order[j])]
    /\ IF cwd_json = {} THEN pc' = "exit" /\ k' = 0
                        ELSE pc' = "load" /\ k' = 1
    /\ UNCHANGED <<argv, cwd, cwd_json, dirs, files, data, output_dir, i,
                   error, stdout, loaded, writes, made, parsed, san_in, san_out>>

\* lines 51-52: the file parses to some document
LoadOk ==
    /\ pc = "load"
    /\ \E d \in Documents :
          /\ loaded + LoadCost(d) <= MaxRecords
          /\ data' = d
          /\ parsed' = d
          /\ loaded' = loaded + LoadCost(d)
    /\ pc' = "normalize"
    /\ i' = 0
    /\ UNCHANGED <<argv, cwd, cwd_json, dirs, files, json_files, k,
                   output_dir, error, stdout, writes, made, san_in, san_out>>

\* lines 51-52: the file cannot be read, or is not JSON
LoadFail ==
    /\ pc = "load"
    /\ \E type \in {"OSError", "JSONDecodeError"} :
          Raise(LoadError(type, json_files[k]))
    /\ UNCHANGED <<argv, cwd, cwd_json, dirs, files, json_files, data,
                   output_dir, i, stdout, loaded, writes, made, parsed, san_in, san_out>>

\* lines 59-72
Normalize ==
    /\ pc = "normalize"
    /\ IF IsList(data)
       THEN pc' = "validate" /\ UNCHANGED <<data, error, k>>
       ELSE IF IsDict(data) /\ FirstQualifying(data) # 0
       THEN /\ data' = data.items[FirstQualifying(data)]
            /\ pc' = "validate"
            /\ UNCHANGED <<error, k>>
       ELSE Raise(NoArrayError(json_files[k])) /\ UNCHANGED data
    /\ UNCHANGED <<argv, cwd, cwd_json, dirs, files, json_files,
                   output_dir, i, stdout, loaded, writes, made, parsed, san_in, san_out>>

\* the check of the entries left out
AllObjectsUnchecked(d) == TRUE

\* lines 74-76, the condition under which no entry raises
AllObjects(d) == \A j \in 1..Len(d.items) : IsDict(d.items[j])

\* lines 74-76
Validate ==
    /\ pc = "validate"
    /\ IF AllObjects(data)
       THEN pc' = "outdir" /\ UNCHANGED <<error, k>>
       ELSE Raise(NotObjectError(json_files[k]))
    /\ UNCHANGED <<argv, cwd, cwd_json, dirs, files, json_files, data,
                   output_dir, i, stdout, loaded, writes, made, parsed, san_in, san_out>>

\* the subdirectory made whatever the working directory is called
OutputDirAlwaysStem(c, path) == JsonFileName(path)

\* lines 82, 83, 86: the directory the records of path go to
OutputDirFor(c, path) == IF c # JsonFileName(path) THEN JsonFileName(path) ELSE Dot

\* lines 79-86
OutputDir ==
    /\ pc = "outdir"
    /\ output_dir' = OutputDirFor(cwd, json_files[k])
    /\ IF output_dir' # Dot
       THEN /\ dirs' = MakeDirs(dirs, output_dir')
            /\ made' = IF output_dir' \in dirs THEN made
                       ELSE made \cup {[k |-> k, dir |-> output_dir']}
       ELSE UNCHANGED <<dirs, made>>
    /\ pc' = "emit"
    /\ UNCHANGED <<argv, cwd, cwd_json, files, json_files, k, data, i,
                   error, stdout, loaded, writes, parsed, san_in, san_out>>

\* lines 89-108, one iteration of the loop
Emit ==
    /\ pc = "emit"
    /\ i < Len(data.items)
    /\ LET entry == Entry(data, i)
           title == Title(entry, i)
       IN  IF IsStr(title)
           THEN /\ files' = WriteFile(files, output_dir, FileName(title),
                                      Content(entry))
                /\ writes' = Append(writes,
                                [k |-> k, idx |-> i + 1, dir |-> output_dir,
                                 name |-> FileName(title),
                                 content |-> Content(entry)])
                /\ i' = i + 1
                /\ UNCHANGED <<pc, error, k>>
           ELSE Raise(AttributeError) /\ UNCHANGED <<files, writes, i>>
    /\ UNCHANGED <<argv, cwd, cwd_json, dirs, json_files, data, output_dir,
                   stdout, loaded, made, parsed, san_in, san_out>>

\* line 110, then the next turn of the loop of lines 125-126, or the end
Summary ==
    /\ pc = "emit"
    /\ i = Len(data.items)
    /\ stdout' = Append(stdout, [n |-> Len(data.items), file |-> json_files[k],
                                 dir |-> output_dir])
    /\ IF k < Len(json_files) THEN pc' = "load" /\ k' = k + 1
                              ELSE pc' = "exit" /\ k' = k
    /\ UNCHANGED <<argv, cwd, cwd_json, dirs, files, json_files, data,
                   output_dir, i, error, loaded, writes, made, parsed, san_in, san_out>>

Next ==
    \/ MainArgv
    \/ MainGlob
    \/ LoadOk
    \/ LoadFail
    \/ Normalize
    \/ Validate
    \/ OutputDir
    \/ Emit
    \/ Summary

Spec == Init /\ [][Next]_vars

----------------------------------------------------------------------------
(* make_valid_filename called alone, on every text up to MaxLen *)

\* letters, a digit, the underscore, the space, and what the pattern deletes
Alphabet == {"a", "Z", "5", "_", " ", "!", "."}

HelloWorld ==
    <<"H","e","l","l","o"," ","W","o","r","l","d","!"," ","2","0","2","4">>

InitFilename ==
    /\ san_in \in Seqs(Alphabet, MaxLen) \cup {HelloWorld}
    /\ san_out = <<>>
    /\ pc = "call"
    /\ argv = <<>> /\ cwd = <<>> /\ cwd_json = {} /\ dirs = {} /\ files = {}
    /\ json_files = <<>> /\ k = 0 /\ data = Null /\ output_dir = <<>>
    /\ i = 0 /\ error = NoError /\ stdout = <<>> /\ loaded = 0
    /\ writes = <<>> /\ made = {} /\ parsed = Null

\* lines 29-40
CallMakeValidFilename ==
    /\ pc = "call"
    /\ san_out' = make_valid_filename(san_in)
    /\ pc' = "returned"
    /\ UNCHANGED <<argv, cwd, cwd_json, dirs, files, json_files, k, data,
                   output_dir, i, error, stdout, loaded, writes, made, parsed,
                   san_in>>

NextFilename == CallMakeValidFilename

SpecFilename == InitFilename /\ [][NextFilename]_vars

----------------------------------------------------------------------------
(* C6 *)

\* the positions of a text that survive: spaces and word characters
Kept(txt) == {j \in 1..Len(txt) : txt[j] = " " \/ txt[j] \in WordChars}

\* C6: make_valid_filename returns its argument with every space turned into
\* an underscore and every other character that is no ASCII letter, digit or
\* underscore deleted, the rest in their order; the result holds only
\* characters of [A-Za-z0-9_], and "Hello World! 2024" gives
\* "Hello_World_2024".
C6_Sanitize ==
    pc = "returned" =>
        /\ Len(san_out) = Cardinality(Kept(san_in))
        /\ \A j \in Kept(san_in) :
              san_out[Cardinality({x \in Kept(san_in) : x <= j})]
                  = IF san_in[j] = " " THEN "_" ELSE san_in[j]
        /\ \A j \in 1..Len(san_out) : san_out[j] \in WordChars
        /\ san_in = HelloWorld =>
              san_out = <<"H","e","l","l","o","_","W","o","r","l","d","_",
                          "2","0","2","4">>

C6_Witness ==
    /\ pc = "returned"
    /\ san_in = HelloWorld
    /\ san_out = <<"H","e","l","l","o","_","W","o","r","l","d","_","2","0","2","4">>

----------------------------------------------------------------------------
(* What the claims speak of *)

\* the writes of the file being processed, in order
CurWrites == SelectSeq(writes, LAMBDA w : w.k = k)

\* split_json_file has left its loop and is about to print and return
Completed == pc = "emit" /\ i = Len(data.items)

\* the files on disk, in the output directory, that this file's writes named
Produced ==
    {f \in files : /\ f.dir = output_dir
                   /\ \E j \in 1..Len(CurWrites) : CurWrites[j].name = f.name}

WrittenNames == {CurWrites[j].name : j \in 1..Len(CurWrites)}

\* a list whose every element is a mapping
ListOfMappings(v) ==
    v.t = "list" /\ \A j \in 1..Len(v.items) : v.items[j].t = "dict"

----------------------------------------------------------------------------
(* C1 *)

\* C1 as stated: a completed run over a top-level list of N objects leaves
\* exactly N output files.
C1_ExactlyNFiles ==
    (Completed /\ IsList(parsed)) => Cardinality(Produced) = Len(parsed.items)

\* C1, amended: a completed run over a top-level list of N objects has made
\* exactly N writes, the j-th for the j-th record of the list, into the
\* output directory, and has left one file per distinct file name among them
\* (N files when the names are pairwise distinct).
C1_NWritesInOrder ==
    (Completed /\ IsList(parsed)) =>
        /\ Len(CurWrites) = Len(parsed.items)
        /\ \A j \in 1..Len(CurWrites) :
              /\ CurWrites[j].idx = j
              /\ CurWrites[j].content = Content(parsed.items[j])
              /\ CurWrites[j].dir = output_dir
        /\ Cardinality(Produced) = Cardinality(WrittenNames)
        /\ (\A a, b \in 1..Len(CurWrites) :
                a # b => CurWrites[a].name # CurWrites[b].name)
              => Cardinality(Produced) = Len(parsed.items)

C1_Witness ==
    /\ Completed
    /\ IsList(parsed)
    /\ Len(parsed.items) = 3
    /\ Len(CurWrites) = 3
    /\ CurWrites[1].content # CurWrites[2].content
    /\ CurWrites[1].name = CurWrites[2].name
    /\ Cardinality(Produced) = 2

----------------------------------------------------------------------------
(* C2 *)

\* C2 as stated, its count: the chosen list of M objects gives M output files.
C2_ExactlyMFiles ==
    (Completed /\ IsDict(parsed)) => Cardinality(Produced) = Len(data.items)

\* C2, amended: for a top-level mapping the record set is the value of the
\* first key, in insertion order, whose value is a list of mappings only (an
\* empty list qualifies), whatever later keys hold; a completed run has made
\* one write per record of that list and left one file per distinct file
\* name among them.
C2_FirstQualifyingKey ==
    /\ (IsDict(parsed) /\ pc \in {"validate", "outdir", "emit"}) =>
          \E j \in 1..Len(parsed.keys) :
              /\ ListOfMappings(parsed.items[j])
              /\ \A x \in 1..(j - 1) : ~ListOfMappings(parsed.items[x])
              /\ data = parsed.items[j]
    /\ (Completed /\ IsDict(parsed)) =>
          /\ Len(CurWrites) = Len(data.items)
          /\ \A j \in 1..Len(CurWrites) :
                CurWrites[j].content = Content(data.items[j])
          /\ Cardinality(Produced) = Cardinality(WrittenNames)

C2_Witness ==
    /\ Completed
    /\ IsDict(parsed)
    /\ Len(parsed.keys) = 2
    /\ ListOfMappings(parsed.items[1])
    /\ ListOfMappings(parsed.items[2])
    /\ parsed.items[2] # parsed.items[1]
    /\ Len(parsed.items[2].items) = 1
    /\ data = parsed.items[1]
    /\ Len(data.items) = 2
    /\ Cardinality(Produced) = 2

----------------------------------------------------------------------------
(* C3 *)

\* the three shapes the claim lists
BadShape(d) ==
    \/ d.t \notin {"list", "dict"}
    \/ d.t = "dict" /\ \A j \in 1..Len(d.items) : ~ListOfMappings(d.items[j])
    \/ d.t = "list" /\ \E j \in 1..Len(d.items) : d.items[j].t # "dict"

\* the file was read and its shape has been judged
ShapeJudged ==
    \/ pc \in {"outdir", "emit"}
    \/ pc = "exit" /\ k > 0
    \/ pc = "failed" /\ error.type \in {"ValueError", "AttributeError"}

\* C3: split_json_file raises a shape error exactly when the parsed JSON is
\* neither list nor mapping, or a mapping with no value that is a list of
\* mappings only, or a list with an element that is no mapping; and the
\* error names the input file.
C3_ShapeErrorIff ==
    /\ ShapeJudged => (error.type = "ValueError" <=> BadShape(parsed))
    /\ error.type = "ValueError" => (k > 0 /\ error.file = json_files[k])

C3_Witness ==
    /\ pc = "failed"
    /\ error.type = "ValueError"
    /\ error.file = json_files[k]
    /\ parsed = Dict(<<<<"m">>>>, <<Num(7)>>)

----------------------------------------------------------------------------
(* C4 *)

\* the stem of a name that ends in .json
StemOf(base) ==
    CHOOSE st \in {SubSeq(base, 1, n) : n \in 0..Len(base)} : st \o JsonExt = base

\* where the claim sends the records of path
ClaimedDir(path) == IF cwd = StemOf(path.base) THEN Dot ELSE StemOf(path.base)

\* C4: the output directory is fixed before any record is written; it is the
\* working directory, with no subdirectory created, when the working
\* directory's base name is the input file's stem, and otherwise the
\* subdirectory named by the stem, created or reused; every output file of
\* the input goes there.
C4_OutputDirectory ==
    /\ \A j \in 1..Len(writes) :
          writes[j].dir = ClaimedDir(json_files[writes[j].k])
    /\ pc \in {"load", "normalize", "validate", "outdir"} => Len(CurWrites) = 0
    /\ pc = "emit" =>
          /\ output_dir = ClaimedDir(json_files[k])
          /\ output_dir # Dot => output_dir \in dirs
    /\ \A m \in made :
          /\ m.dir = StemOf(json_files[m.k].base)
          /\ m.dir # cwd

C4_Witness ==
    /\ pc = "exit"
    /\ \E a, b \in 1..Len(writes) :
          /\ writes[a].dir = Dot
          /\ json_files[writes[a].k].base = cwd \o JsonExt
          /\ writes[b].dir # Dot
          /\ [k |-> writes[b].k, dir |-> writes[b].dir] \in made
    /\ \A m \in made : m.dir # cwd

----------------------------------------------------------------------------
(* C5 *)

\* C5: the file of the record at position j is named by its sanitized title
\* and ".md"; the title is the title field when the record has one, else
\* "entry_" and j, so that an untitled third record gives entry_3.md.
C5_FileNames ==
    \A j \in 1..Len(CurWrites) :
        LET w == CurWrites[j]
            entry == data.items[j]
            at == {x \in 1..Len(entry.keys) : entry.keys[x] = TitleKey}
        IN  /\ w.idx = j
            /\ \A x \in at :
                  w.name = make_valid_filename(entry.items[x].s) \o MdExt
            /\ at = {} => w.name = EntryPrefix \o IntToStr(j) \o MdExt
            /\ (at = {} /\ j = 3) =>
                  w.name = <<"e","n","t","r","y","_","3",".","m","d">>

C5_Witness ==
    \E j \in 1..Len(writes) :
        /\ writes[j].idx = 3
        /\ ~HasKey(data.items[3], TitleKey)
        /\ writes[j].name = <<"e","n","t","r","y","_","3",".","m","d">>
        /\ \E f \in files : f.name = writes[j].name /\ f.dir = writes[j].dir

----------------------------------------------------------------------------
(* C7 *)

\* the last write of file kk to the name nm
LastWrite(kk, nm) ==
    LET at == {j \in 1..Len(writes) : writes[j].k = kk /\ writes[j].name = nm}
    IN  writes[CHOOSE x \in at : \A y \in at : y <= x]

\* C7: when two records of one record set have titles that sanitize to the
\* same text, nothing is raised or checked: each of them is written, the
\* later write replaces the earlier file, and so one file of that name is on
\* disk, holding the header of the later record.
C7_LaterOverwrites ==
    /\ \A a, b \in 1..Len(writes) :
          (a < b /\ writes[a].k = writes[b].k /\ writes[a].name = writes[b].name)
          => {f \in files : f.dir = writes[a].dir /\ f.name = writes[a].name}
                = {[dir |-> writes[a].dir, name |-> writes[a].name,
                    content |-> LastWrite(writes[a].k, writes[a].name).content]}
    /\ Completed => Len(CurWrites) = Len(data.items)
    /\ error.type = "AttributeError" =>
          /\ HasKey(data.items[i + 1], TitleKey)
          /\ Lookup(data.items[i + 1], TitleKey).t # "str"

C7_Witness ==
    /\ Completed
    /\ Len(CurWrites) = 2
    /\ CurWrites[1].name = CurWrites[2].name
    /\ CurWrites[1].content # CurWrites[2].content
    /\ {f \in files : f.dir = output_dir /\ f.name = CurWrites[1].name}
          = {[dir |-> output_dir, name |-> CurWrites[2].name,
              content |-> CurWrites[2].content]}

----------------------------------------------------------------------------
(* C8 *)

Quoted(txt) == <<"\"">> \o txt \o <<"\"">>

\* the lines the claim gives one field
ClaimedFieldLines(key, value) ==
    IF value.t = "list"
    THEN <<key \o <<":">>>>
         \o [j \in 1..Len(value.items) |->
                <<" "," ","-"," ">> \o Quoted(PyStr(value.items[j]))]
    ELSE <<key \o <<":"," ">> \o Quoted(PyStr(value))>>

RECURSIVE Flatten(_)
Flatten(ss) == IF ss = <<>> THEN <<>> ELSE Head(ss) \o Flatten(Tail(ss))

\* the lines the claim gives a record: ---, its fields in key order, ---
ClaimedLines(entry) ==
    <<<<"-","-","-">>>>
    \o Flatten([j \in 1..Len(entry.keys) |->
                   ClaimedFieldLines(entry.keys[j], entry.items[j])])
    \o <<<<"-","-","-">>>>

\* lines as text, each ended by a newline
Unlines(ls) == Flatten([j \in 1..Len(ls) |-> ls[j] \o <<"\n">>])

\* C8: what is written for a record is a --- line, then for each field in
\* key order the line key: "value", or for a list the line key: and one line
\*   - "item" per element in order, then a --- line, and nothing more.
C8_Content ==
    \A j \in 1..Len(CurWrites) :
        LET w == CurWrites[j]
            last == LastWrite(k, w.name)
        IN  /\ w.content = Unlines(ClaimedLines(data.items[w.idx]))
            /\ \E f \in files :
                  /\ f.dir = w.dir
                  /\ f.name = w.name
                  /\ f.content = Unlines(ClaimedLines(data.items[last.idx]))

C8_Witness ==
    \E f \in files :
        /\ f.name = <<"a","_","b",".","m","d">>
        /\ f.content =
              <<"-","-","-","\n",
                "t","a","g","s",":","\n",
                " "," ","-"," ","\"","x","\"","\n",
                " "," ","-"," ","\"","5","\"","\n",
                "t","i","t","l","e",":"," ","\"","a","_","b","\"","\n",
                "-","-","-","\n">>

----------------------------------------------------------------------------
(* C9 *)

\* C9: the files are processed one after another: the one path given, or in
\* scan mode every *.json of the working directory in turn; the first file
\* that fails ends the run, so that nothing is made or written for a later
\* file, and what earlier files wrote stays on disk.
C9_Driver ==
    /\ (Len(argv) > 0 /\ pc # "main") => json_files = <<argv[1]>>
    /\ (Len(argv) = 0 /\ pc # "main") =>
          /\ Len(json_files) = Cardinality(cwd_json)
          /\ {json_files[j].base : j \in 1..Len(json_files)} = cwd_json
    /\ k <= Len(json_files)
    /\ k > 0 => Len(stdout) \in {k - 1, k}
    /\ \A j \in 1..Len(stdout) : stdout[j].file = json_files[j]
    /\ \A j \in 1..Len(writes) : writes[j].k <= Len(stdout) + 1
    /\ \A a, b \in 1..Len(writes) : a < b => writes[a].k <= writes[b].k
    /\ \A m \in made : m.k <= Len(stdout) + 1
    /\ error # NoError =>
          /\ pc = "failed"
          /\ Len(stdout) = k - 1
          /\ \A j \in 1..Len(writes) : writes[j].k <= k
          /\ \A m \in made : m.k <= k
    /\ \A j \in 1..Len(writes) :
          \E f \in files :
              /\ f.dir = writes[j].dir
              /\ f.name = writes[j].name
              /\ f.content = LastWrite(writes[j].k, writes[j].name).content

C9_Witness ==
    /\ pc = "failed"
    /\ Len(json_files) = 2
    /\ k = 2
    /\ Len(stdout) = 1
    /\ \E j \in 1..Len(writes) : writes[j].k = 1
    /\ \A j \in 1..Len(writes) :
          /\ writes[j].k = 1
          /\ \E f \in files : f.dir = writes[j].dir /\ f.name = writes[j].name

----------------------------------------------------------------------------
(* C10 *)

\* C10: every failure of split_json_file comes before its loop over the
\* records: when a file's processing has failed, nothing was written for it.
C10_FailsBeforeLoop ==
    pc = "failed" => \A j \in 1..Len(writes) : writes[j].k # k

====
